---- MODULE Spec2Model ----
(***************************************************************************)
(* The ingestion pipeline of backup_photos.py: the paginated catalog       *)
(* (get_media), the recent cap (itertools.islice), the skip filter         *)
(* (skip_already_saved / already_saved), make_directories, the expander    *)
(* (get_all_downloadable_items), and the producer / worker pool of backup  *)
(* with the retry loop of download; the dry run (print_items) and the      *)
(* deletion pass over 'Recently Deleted' (delete_files).                   *)
(***************************************************************************)
EXTENDS Integers, Sequences, FiniteSets, TLC

(***************************************************************************)
(* Program constants.                                                      *)
(***************************************************************************)
MAX_RETRIES == 5

WAIT_SECONDS == 5

num_worker_threads == 4

maxsize == 4

(***************************************************************************)
(* Bounds of the model.                                                    *)
(***************************************************************************)
\* masters the remote returns per page (page_size is 100 in the code)
PageSize == 2

\* entries of the remote catalog in the scenarios that vary catalog and disk
MaxEntries == 3

\* entries of the remote catalog in the scenario that fills pool and queue
PoolEntries == 9

\* connectivity failures the network injects over one scenario
MaxConnFailures == 5

\* storage errors the destination injects over one scenario
MaxStorageErrors == 1

\* runs of the program against the same remote catalog and destination
MaxRuns == 2

\* errors os.path.getsize raises over one scenario
MaxStatErrors == 1

\* errors os.remove raises over one scenario
MaxDeleteErrors == 1

(***************************************************************************)
(* Values.                                                                 *)
(***************************************************************************)
\* Python's None for the options, and the absence of a file
NoValue == -1

NoFile == -1

\* os.path.getsize raising OSError, in place of the size it would return
OSError == -2

\* a remote that keeps to the schema
NoBreak == [kind |-> "none", at |-> 0]

\* the stop value the producer puts on the queue, one per worker
None == [idx |-> 0, vid |-> FALSE]

Workers == 1 .. num_worker_threads

\* size of a file a download left unfinished (opened 'wb', stream broken)
Truncated == 0

(***************************************************************************)
(* Remote records.  A record carries filenameEnc (here the decoded name,   *)
(* a stem and an extension), created (the day), resOriginalRes.size and,   *)
(* for a live photo, resOriginalVidComplRes.size (vid = 0: no such key).   *)
(***************************************************************************)
Rec(stem, ext, day, size, vidsize) ==
    [stem |-> stem, ext |-> ext, created |-> day, res |-> size, vid |-> vidsize]

\* Media.from_record: file name, created date and size of the still
from_record(record) ==
    [file_name |-> <<record.stem, record.ext>>,
     created_date |-> record.created,
     file_size |-> record.res]

\* Media.from_live_photo_record: the paired video, extension rewritten to mov
from_live_photo_record(record) ==
    [file_name |-> <<record.stem, "mov">>,
     created_date |-> record.created,
     file_size |-> record.vid]

\* 'resOriginalVidComplRes' in record['fields']
HasVid(record) == record.vid # 0

\* get_download_dir: the directory is a function of the created date alone
get_download_dir(created_date) == <<created_date>>

\* os.path.join(download_dir, file_name)
download_path(media) == <<media.created_date, media.file_name>>


(***************************************************************************)
(* State.                                                                  *)
(***************************************************************************)
VARIABLES
    remote,                  \* the masters of the remote library, in remote order
    until_found,             \* --until-found (NoValue: not given)
    recent,                  \* --recent (NoValue: not given)
    only_print,              \* --only-print-filenames
    auto_delete,             \* --auto-delete
    removed,                 \* the masters of 'Recently Deleted', in remote order
    broken,                  \* where the remote breaks the schema, if anywhere
    start_disk,              \* the destination as the first run finds it
    connLeft,                \* connectivity failures the network may still inject
    storLeft,                \* storage errors the destination may still inject
    statLeft,                \* errors os.path.getsize may still raise
    delLeft,                 \* errors os.remove may still raise
    run,                     \* number of the current run of the program
    disk,                    \* destination: path -> stored size, or NoFile
    dirs,                    \* destination: directories that exist
    offset,                  \* get_media: offset of the next query
    yielded,                 \* get_media: masters yielded so far (islice's count)
    consecutive_files_found, \* skip_already_saved: the streak counter
    mainpc,                  \* backup: position of the main thread
    item,                    \* backup: the unit the for loop holds
    other_pending,           \* get_all_downloadable_items: companion still to yield
    download_queue,          \* queue.Queue(maxsize=4): the buffered values
    unfinished_tasks,        \* queue.Queue: puts not yet matched by task_done
    sentinels,               \* backup: stop values put so far
    wpc,                     \* worker: position of each worker thread
    witem,                   \* worker: the unit each worker holds
    attempt,                 \* download: iterations of the retry loop begun
    queries,                 \* log: offsets of the page queries of this run
    checked,                 \* log: entries the skip filter examined, with what it saw
    emitted,                 \* log: entries the skip filter yielded
    enqueued,                \* log: units put on the queue, in order
    dequeued,                \* log: units taken off the queue, in order
    finished,                \* log: unit -> task_done calls
    requests,                \* log: unit -> session.get calls
    errors,                  \* log: unit -> "Could not download" lines
    slept,                   \* log: unit -> seconds spent in time.sleep
    prev,                    \* log: what earlier runs left behind
    del_offset,              \* get_media of line 187: offset of the next query
    del_yielded,             \* get_media of line 187: masters yielded so far
    del_queries,             \* log: offsets of the queries of 'Recently Deleted'
    deleted,                 \* log: os.remove calls, with their outcome
    printed                  \* log: the lines of print_items

conf == <<remote, until_found, recent, only_print, auto_delete, removed, broken,
          start_disk>>

env == <<connLeft, storLeft, statLeft, delLeft>>

dest == <<disk, dirs>>

catalog == <<offset, yielded, queries>>

filter == <<consecutive_files_found, checked, emitted>>

producer == <<mainpc, item, other_pending, sentinels>>

queue == <<download_queue, unfinished_tasks, enqueued>>

pool == <<wpc, witem, attempt, dequeued, finished, requests, errors, slept>>

sync == <<del_offset, del_yielded, del_queries, deleted, printed>>

vars == <<conf, env, run, dest, catalog, filter, producer, queue, pool, prev, sync>>

(***************************************************************************)
(* Units: the still of entry i is [idx |-> i, vid |-> FALSE], its paired   *)
(* video [idx |-> i, vid |-> TRUE].                                        *)
(***************************************************************************)
Unit(i, v) == [idx |-> i, vid |-> v]

\* the Media object a unit stands for
MediaOf(u) ==
    IF u.vid THEN from_live_photo_record(remote[u.idx]) ELSE from_record(remote[u.idx])

UnitsOf(cat) ==
    {Unit(i, FALSE) : i \in 1 .. Len(cat)}
        \cup {Unit(i, TRUE) : i \in {j \in 1 .. Len(cat) : HasVid(cat[j])}}

PathsOf(cat) ==
    {download_path(from_record(cat[i])) : i \in 1 .. Len(cat)}
        \cup {download_path(from_live_photo_record(cat[i])) :
                 i \in {j \in 1 .. Len(cat) : HasVid(cat[j])}}

(***************************************************************************)
(* The destination.                                                        *)
(***************************************************************************)
\* already_saved with the size comparison the wrong way round
already_saved_inverted(d, media) ==
    IF d[download_path(media)] = NoFile
    THEN FALSE
    ELSE IF d[download_path(media)] = media.file_size THEN FALSE ELSE TRUE

\* already_saved that looks for the file and not at its size
already_saved_any_size(d, media) ==
    IF d[download_path(media)] = NoFile THEN FALSE ELSE TRUE

\* already_saved taking a size it could not read for the expected one
already_saved_on_error(d, media) ==
    IF d[download_path(media)] = NoFile
    THEN FALSE
    ELSE IF d[download_path(media)] = OSError
         THEN TRUE
         ELSE IF d[download_path(media)] # media.file_size THEN FALSE ELSE TRUE

\* already_saved (filesystem branch, lines 330-347): d is what os.path.isfile
\* and os.path.getsize answer; true when the file exists and its size is the
\* expected one, false when there is no file, when getsize raises OSError
\* and when the size differs
already_saved(d, media) ==
    IF d[download_path(media)] = NoFile
    THEN FALSE
    ELSE IF d[download_path(media)] = OSError
         THEN FALSE
         ELSE IF d[download_path(media)] # media.file_size THEN FALSE ELSE TRUE

\* the skip decision without the look at the companion
saved_without_other(d, record) == already_saved(d, from_record(record))

\* skip_already_saved, lines 289-292: the entry, then its companion
saved_with_other(d, record) ==
    LET saved == already_saved(d, from_record(record))
    IN  IF saved /\ HasVid(record)
        THEN already_saved(d, from_live_photo_record(record))
        ELSE saved

\* the early stop test one entry late
stop_now_late(uf, count) == uf # NoValue /\ count > uf

\* a threshold of 0 taken for no threshold
stop_now_falsy(uf, count) == uf # NoValue /\ uf # 0 /\ count >= uf

\* skip_already_saved, line 301: the early stop test after a skipped entry
stop_now(uf, count) == uf # NoValue /\ count >= uf

\* an islice that pulls one item more than asked
islice_open_late(rec, n) == rec = NoValue \/ n =< rec

\* itertools.islice(items, recent): no further item is pulled after `recent`
islice_open(rec, n) == rec = NoValue \/ n < rec

\* the bytes a successful download writes: the object the record describes
ContentLength(media) == media.file_size

\* what the os calls answer for the destination d when getsize raises
\* OSError on the files in `failing`
stat(d, failing) ==
    [p \in DOMAIN d |-> IF p \in failing /\ d[p] # NoFile THEN OSError ELSE d[p]]

\* the getsize calls skip_already_saved makes for a record and that may
\* raise: the one on the file of the entry, or, once the entry is found
\* saved, the one on the file of its companion; `left` is what may be raised
StatFaults(d, record, left) ==
    {{}} \cup
    (IF left > 0 /\ d[download_path(from_record(record))] # NoFile
     THEN {{download_path(from_record(record))}} ELSE {}) \cup
    (IF /\ left > 0
        /\ HasVid(record)
        /\ already_saved(d, from_record(record))
        /\ d[download_path(from_live_photo_record(record))] # NoFile
     THEN {{download_path(from_live_photo_record(record))}} ELSE {})

\* what the skip filter saw of an entry: the stored sizes at that moment
Seen(d, i) ==
    [idx |-> i,
     main |-> d[download_path(from_record(remote[i]))],
     other |-> IF HasVid(remote[i])
               THEN d[download_path(from_live_photo_record(remote[i]))]
               ELSE NoValue,
     saved |-> already_saved(d, from_record(remote[i])),
     both |-> saved_with_other(d, remote[i])]

(***************************************************************************)
(* The producer: backup, lines 148-183, pulling through the generators.    *)
(***************************************************************************)
\* backup, lines 185-193: where the main thread goes once the items are
\* dealt with, to the deletion pass or to the end of backup
AfterDownloads == IF auto_delete THEN "sync" ELSE "done"

\* backup, lines 159-175: where the main thread goes when the items run out,
\* past print_items or to download_queue.join
AfterItems == IF only_print THEN AfterDownloads ELSE "join"

\* the generators are exhausted: the loop of line 171, or of print_items, ends
EndOfItems ==
    /\ mainpc' = AfterItems
    /\ item' = None
    /\ other_pending' = None

\* build_query, line 363, and get_media, lines 391-395: the records of the
\* response to the query with startRank = off: for each of the next masters
\* of the library, up to PageSize of them, its CPLMaster record and the
\* CPLAsset record that goes with it (resultsLimit is twice the page size)
records_at(cat, off) ==
    LET n == IF Len(cat) - off < PageSize THEN Len(cat) - off ELSE PageSize
    IN  [k \in 1 .. 2 * n |->
            IF k % 2 = 1
            THEN [recordType |-> "CPLMaster", rank |-> off + (k + 1) \div 2]
            ELSE [recordType |-> "CPLAsset", rank |-> off + k \div 2]]

\* a page taken whole, whatever the type of its records
master_records_unfiltered(records) == records

\* get_media, line 396: the records of the page that are masters
master_records(records) ==
    SelectSeq(records, LAMBDA record : record.recordType = "CPLMaster")

\* get_media, lines 389-403: one page query; an empty page ends the catalog
masters_at(cat, off) == Len(master_records(records_at(cat, off)))

\* get_media, line 395: the response to the query at this offset has no
\* 'records' (or, line 396, a record of it no 'recordType')
page_malformed(brk, off) == brk.kind = "page" /\ brk.at = off

\* get_media, lines 406-410: master number i lacks a key from_record reads
record_malformed(brk, i) == brk.kind = "record" /\ brk.at = i

FetchPage ==
    /\ mainpc = "next"
    /\ islice_open(recent, yielded)
    /\ yielded = offset
    /\ ~page_malformed(broken, offset)
    /\ queries' = Append(queries, offset)
    /\ IF masters_at(remote, offset) = 0
       THEN /\ EndOfItems
            /\ UNCHANGED offset
       ELSE /\ offset' = offset + masters_at(remote, offset)
            /\ UNCHANGED <<mainpc, item, other_pending>>
    /\ UNCHANGED <<conf, env, run, dest, yielded, filter, sentinels, queue, pool, prev, sync>>

\* get_media, lines 389-396: the query is sent and the response is not what
\* the code indexes; the KeyError leaves the generators and backup
PageError ==
    /\ mainpc = "next"
    /\ islice_open(recent, yielded)
    /\ yielded = offset
    /\ page_malformed(broken, offset)
    /\ queries' = Append(queries, offset)
    /\ mainpc' = "raised"
    /\ UNCHANGED <<conf, env, run, dest, offset, yielded, filter, item, other_pending,
                   sentinels, queue, pool, prev, sync>>

\* get_media, lines 405-410: from_record raises on the next master of the
\* page; the KeyError leaves the generators and backup
RecordError ==
    /\ mainpc = "next"
    /\ islice_open(recent, yielded)
    /\ yielded < offset
    /\ record_malformed(broken, yielded + 1)
    /\ mainpc' = "raised"
    /\ UNCHANGED <<conf, env, run, dest, catalog, filter, item, other_pending,
                   sentinels, queue, pool, prev, sync>>

\* islice has handed out `recent` items: it stops without pulling another
RecentReached ==
    /\ mainpc = "next"
    /\ ~islice_open(recent, yielded)
    /\ EndOfItems
    /\ UNCHANGED <<conf, env, run, dest, catalog, filter, sentinels, queue, pool, prev, sync>>

\* a pass-through that creates nothing
make_directories_skipped(ds, created_date) == ds

\* make_directories, lines 272-275: the directory of the item is created
\* unless it exists
make_directories(ds, created_date) ==
    IF get_download_dir(created_date) \in ds THEN ds
    ELSE ds \cup {get_download_dir(created_date)}

\* skip_already_saved, lines 288-307, one iteration on the next master; an
\* entry that is not saved goes on through make_directories (lines 272-277)
\* and get_all_downloadable_items (line 265) into the for loop of backup
SkipStep ==
    /\ mainpc = "next"
    /\ islice_open(recent, yielded)
    /\ yielded < offset
    /\ ~record_malformed(broken, yielded + 1)
    /\ \E failing \in StatFaults(disk, remote[yielded + 1], statLeft) :
       LET i == yielded + 1
           seen == stat(disk, failing)
           saved == saved_with_other(seen, remote[i])
       IN  /\ yielded' = i
           /\ statLeft' = statLeft - Cardinality(failing)
           /\ checked' = Append(checked, Seen(seen, i))
           /\ IF saved
              THEN /\ consecutive_files_found' = consecutive_files_found + 1
                   /\ IF stop_now(until_found, consecutive_files_found + 1)
                      THEN EndOfItems
                      ELSE UNCHANGED <<mainpc, item, other_pending>>
                   /\ UNCHANGED <<emitted, dirs>>
              ELSE /\ consecutive_files_found' = 0
                   /\ emitted' = Append(emitted, i)
                   /\ dirs' = make_directories(dirs, remote[i].created)
                   /\ item' = Unit(i, FALSE)
                   /\ other_pending' = IF HasVid(remote[i]) THEN Unit(i, TRUE) ELSE None
                   /\ mainpc' = IF only_print THEN "print" ELSE "put"
    /\ UNCHANGED <<conf, connLeft, storLeft, delLeft, run, disk, offset, queries,
                   sentinels, queue, pool, prev, sync>>

\* an expander that yields the entry and forgets its companion
get_all_downloadable_items_parent_only(pc) ==
    /\ item' = None
    /\ other_pending' = None
    /\ mainpc' = "next"

\* get_all_downloadable_items, lines 265-267, resumed by the loop that
\* consumes it (at pc): after the entry it yields the companion, if there is
\* one, and then goes back for the next entry
get_all_downloadable_items(pc) ==
    IF other_pending # None
    THEN /\ item' = other_pending
         /\ other_pending' = None
         /\ mainpc' = pc
    ELSE /\ item' = None
         /\ mainpc' = "next"
         /\ UNCHANGED other_pending

\* print_items, lines 196-198: one line with the file name of the unit
PrintItem ==
    /\ mainpc = "print"
    /\ printed' = Append(printed, MediaOf(item).file_name)
    /\ get_all_downloadable_items("print")
    /\ UNCHANGED <<conf, env, run, dest, catalog, filter, sentinels, queue, pool, prev,
                   del_offset, del_yielded, del_queries, deleted>>

\* a queue without a bound
can_put_unbounded(q) == TRUE

\* Queue.put blocks while the queue holds maxsize values
can_put(q) == Len(q) < maxsize

\* put on a queue that hands out the newest value first
PutFront ==
    /\ mainpc = "put"
    /\ can_put(download_queue)
    /\ download_queue' = <<item>> \o download_queue
    /\ unfinished_tasks' = unfinished_tasks + 1
    /\ enqueued' = Append(enqueued, item)
    /\ get_all_downloadable_items("put")
    /\ UNCHANGED <<conf, env, run, dest, catalog, filter, sentinels, pool, prev, sync>>

\* backup, lines 171-172: put the unit; the loop then resumes the expander
Put ==
    /\ mainpc = "put"
    /\ can_put(download_queue)
    /\ download_queue' = Append(download_queue, item)
    /\ unfinished_tasks' = unfinished_tasks + 1
    /\ enqueued' = Append(enqueued, item)
    /\ get_all_downloadable_items("put")
    /\ UNCHANGED <<conf, env, run, dest, catalog, filter, sentinels, pool, prev, sync>>

\* a join that does not wait
all_tasks_done_early(n) == TRUE

\* Queue.join returns once every put has been matched by a task_done
all_tasks_done(n) == n = 0

\* backup, line 175
Join ==
    /\ mainpc = "join"
    /\ all_tasks_done(unfinished_tasks)
    /\ mainpc' = "stop"
    /\ UNCHANGED <<conf, env, run, dest, catalog, filter, item, other_pending,
                   sentinels, queue, pool, prev, sync>>

\* backup, lines 178-179: one None per worker thread
PutNone ==
    /\ mainpc = "stop"
    /\ sentinels < num_worker_threads
    /\ can_put(download_queue)
    /\ download_queue' = Append(download_queue, None)
    /\ unfinished_tasks' = unfinished_tasks + 1
    /\ sentinels' = sentinels + 1
    /\ UNCHANGED <<conf, env, run, dest, catalog, filter, mainpc, item, other_pending,
                   enqueued, pool, prev, sync>>

\* a thread can be joined once it has ended, by return or by an exception
thread_ended(pc) == pc \in {"exited", "crashed"}

\* a main thread that goes on without joining the worker threads
JoinThreadsUnjoined ==
    /\ mainpc = "stop"
    /\ sentinels = num_worker_threads
    /\ mainpc' = AfterDownloads
    /\ UNCHANGED <<conf, env, run, dest, catalog, filter, item, other_pending,
                   sentinels, queue, pool, prev, sync>>

\* backup, lines 180-183: join every thread, then "...Done downloading"
JoinThreads ==
    /\ mainpc = "stop"
    /\ sentinels = num_worker_threads
    /\ \A w \in Workers : thread_ended(wpc[w])
    /\ mainpc' = AfterDownloads
    /\ UNCHANGED <<conf, env, run, dest, catalog, filter, item, other_pending,
                   sentinels, queue, pool, prev, sync>>

(***************************************************************************)
(* The workers: worker, lines 211-217, and download, lines 220-260.        *)
(***************************************************************************)
\* Queue.task_done
task_done(n) == n - 1

\* a retry loop that runs once too often
retry_again_once_more(tried) == tried =< MAX_RETRIES

\* the retry loop of line 224 has another iteration after `tried` of them
retry_again(tried) == tried < MAX_RETRIES

\* open(download_path, 'wb') needs the directory; it empties the file
can_open(ds, media) == get_download_dir(media.created_date) \in ds

\* a get that reads the head of the queue and leaves it there
GetPeek(w) ==
    /\ wpc[w] = "get"
    /\ download_queue # <<>>
    /\ Head(download_queue) # None
    /\ wpc' = [wpc EXCEPT ![w] = "download"]
    /\ witem' = [witem EXCEPT ![w] = Head(download_queue)]
    /\ attempt' = [attempt EXCEPT ![w] = 0]
    /\ dequeued' = Append(dequeued, Head(download_queue))
    /\ UNCHANGED <<conf, env, run, dest, catalog, filter, producer, queue,
                   finished, requests, errors, slept, prev, sync>>

\* worker, lines 213-215: take the next value; None ends the thread
Get(w) ==
    /\ wpc[w] = "get"
    /\ download_queue # <<>>
    /\ download_queue' = Tail(download_queue)
    /\ IF Head(download_queue) = None
       THEN /\ wpc' = [wpc EXCEPT ![w] = "exited"]
            /\ UNCHANGED <<witem, attempt, dequeued>>
       ELSE /\ wpc' = [wpc EXCEPT ![w] = "download"]
            /\ witem' = [witem EXCEPT ![w] = Head(download_queue)]
            /\ attempt' = [attempt EXCEPT ![w] = 0]
            /\ dequeued' = Append(dequeued, Head(download_queue))
    /\ UNCHANGED <<conf, env, run, dest, catalog, filter, producer, unfinished_tasks,
                   enqueued, finished, requests, errors, slept, prev, sync>>

\* worker, lines 216-217: download has returned; mark the unit done, loop
Returned(w) ==
    /\ wpc' = [wpc EXCEPT ![w] = "get"]
    /\ witem' = [witem EXCEPT ![w] = None]
    /\ unfinished_tasks' = task_done(unfinished_tasks)
    /\ finished' = [finished EXCEPT ![witem[w]] = @ + 1]

\* a download that writes the file and goes round the loop again
SucceedThenRetry(w) ==
    /\ wpc[w] = "download"
    /\ can_open(dirs, MediaOf(witem[w]))
    /\ requests' = [requests EXCEPT ![witem[w]] = @ + 1]
    /\ disk' = [disk EXCEPT ![download_path(MediaOf(witem[w]))] =
                                ContentLength(MediaOf(witem[w]))]
    /\ attempt' = [attempt EXCEPT ![w] = @ + 1]
    /\ IF retry_again(attempt[w] + 1)
       THEN UNCHANGED <<wpc, witem, unfinished_tasks, finished>>
       ELSE Returned(w)
    /\ UNCHANGED <<conf, env, run, dirs, catalog, filter, producer, download_queue,
                   enqueued, dequeued, errors, slept, prev, sync>>

\* download, lines 226-254: the request is answered and the file is written
Succeed(w) ==
    /\ wpc[w] = "download"
    /\ can_open(dirs, MediaOf(witem[w]))
    /\ requests' = [requests EXCEPT ![witem[w]] = @ + 1]
    /\ disk' = [disk EXCEPT ![download_path(MediaOf(witem[w]))] =
                                ContentLength(MediaOf(witem[w]))]
    /\ Returned(w)
    /\ UNCHANGED <<conf, env, run, dirs, catalog, filter, producer, download_queue,
                   enqueued, attempt, dequeued, errors, slept, prev, sync>>

\* download, lines 256-257: ConnectionError or socket.timeout, raised by
\* session.get (the file is untouched) or while the body is streamed (the
\* file is left truncated); the warning is logged and time.sleep is entered
ConnectionFails(w, streaming) ==
    /\ wpc[w] = "download"
    /\ connLeft > 0
    /\ connLeft' = connLeft - 1
    /\ requests' = [requests EXCEPT ![witem[w]] = @ + 1]
    /\ IF streaming
       THEN /\ can_open(dirs, MediaOf(witem[w]))
            /\ disk' = [disk EXCEPT ![download_path(MediaOf(witem[w]))] = Truncated]
       ELSE UNCHANGED disk
    /\ attempt' = [attempt EXCEPT ![w] = @ + 1]
    /\ wpc' = [wpc EXCEPT ![w] = "sleep"]
    /\ UNCHANGED <<conf, storLeft, statLeft, delLeft, run, dirs, catalog, filter, producer, queue,
                   witem, dequeued, finished, errors, slept, prev, sync>>

\* a last failure that is reported at once, without the delay
SleepBetweenAttempts(w) ==
    /\ wpc[w] = "sleep"
    /\ IF retry_again(attempt[w])
       THEN /\ slept' = [slept EXCEPT ![witem[w]] = @ + WAIT_SECONDS]
            /\ wpc' = [wpc EXCEPT ![w] = "download"]
            /\ UNCHANGED <<witem, unfinished_tasks, finished, errors>>
       ELSE /\ errors' = [errors EXCEPT ![witem[w]] = @ + 1]
            /\ Returned(w)
            /\ UNCHANGED slept
    /\ UNCHANGED <<conf, env, run, dest, catalog, filter, producer, download_queue,
                   enqueued, attempt, dequeued, requests, prev, sync>>

\* download, lines 258-260: time.sleep(WAIT_SECONDS) returns; the loop goes
\* to its next iteration or, after the last, to its else branch, which logs
\* the error, and download returns
Sleep(w) ==
    /\ wpc[w] = "sleep"
    /\ slept' = [slept EXCEPT ![witem[w]] = @ + WAIT_SECONDS]
    /\ IF retry_again(attempt[w])
       THEN /\ wpc' = [wpc EXCEPT ![w] = "download"]
            /\ UNCHANGED <<witem, unfinished_tasks, finished, errors>>
       ELSE /\ errors' = [errors EXCEPT ![witem[w]] = @ + 1]
            /\ Returned(w)
    /\ UNCHANGED <<conf, env, run, dest, catalog, filter, producer, download_queue,
                   enqueued, attempt, dequeued, requests, prev, sync>>

\* download: any other exception (PermissionError from open, OSError from
\* write) is not caught by line 256 and not by worker: the thread ends
StorageFails(w, writing) ==
    /\ wpc[w] = "download"
    /\ storLeft > 0
    /\ storLeft' = storLeft - 1
    /\ requests' = [requests EXCEPT ![witem[w]] = @ + 1]
    /\ IF writing
       THEN /\ can_open(dirs, MediaOf(witem[w]))
            /\ disk' = [disk EXCEPT ![download_path(MediaOf(witem[w]))] = Truncated]
       ELSE UNCHANGED disk
    /\ wpc' = [wpc EXCEPT ![w] = "crashed"]
    /\ UNCHANGED <<conf, connLeft, statLeft, delLeft, run, dirs, catalog, filter, producer, queue,
                   witem, attempt, dequeued, finished, errors, slept, prev, sync>>

(***************************************************************************)
(* The deletion pass: backup, lines 185-193, with get_media on the         *)
(* 'Recently Deleted' album and delete_files, lines 201-208.               *)
(***************************************************************************)
\* get_media, lines 389-403, with recently_deleted_query: one page query
RemovedFetchPage ==
    /\ mainpc = "sync"
    /\ del_yielded = del_offset
    /\ del_queries' = Append(del_queries, del_offset)
    /\ IF masters_at(removed, del_offset) = 0
       THEN /\ mainpc' = "done"
            /\ UNCHANGED del_offset
       ELSE /\ del_offset' = del_offset + masters_at(removed, del_offset)
            /\ UNCHANGED mainpc
    /\ UNCHANGED <<conf, env, run, dest, catalog, filter, item, other_pending, sentinels,
                   queue, pool, prev, del_yielded, deleted, printed>>

\* print_items on the items of line 187: the file name of the next master
PrintRemoved ==
    /\ mainpc = "sync"
    /\ only_print
    /\ del_yielded < del_offset
    /\ del_yielded' = del_yielded + 1
    /\ printed' = Append(printed, from_record(removed[del_yielded + 1]).file_name)
    /\ UNCHANGED <<conf, env, run, dest, catalog, filter, producer, queue, pool, prev,
                   del_offset, del_queries, deleted>>

\* a delete_files that does not look before it removes
exists_unasked(d, path) == TRUE

\* os.path.exists(path)
exists(d, path) == d[path] # NoFile

\* delete_files, lines 203-204: the path of the item get_media yielded
path_of(media) == download_path(media)

\* delete_files, lines 202-208, one iteration: the file of the next master is
\* removed if it exists
Delete ==
    /\ mainpc = "sync"
    /\ ~only_print
    /\ del_yielded < del_offset
    /\ del_yielded' = del_yielded + 1
    /\ LET path == path_of(from_record(removed[del_yielded + 1]))
       IN  IF exists(disk, path)
           THEN /\ disk' = [disk EXCEPT ![path] = NoFile]
                /\ deleted' = Append(deleted, [path |-> path, ok |-> TRUE])
           ELSE UNCHANGED <<disk, deleted>>
    /\ UNCHANGED <<conf, env, run, dirs, catalog, filter, producer, queue, pool, prev,
                   del_offset, del_queries, printed>>

\* delete_files, line 208: os.remove raises (PermissionError, a directory in
\* place of the file); nothing catches it in delete_files or in backup
DeleteFails ==
    /\ mainpc = "sync"
    /\ ~only_print
    /\ del_yielded < del_offset
    /\ delLeft > 0
    /\ exists(disk, path_of(from_record(removed[del_yielded + 1])))
    /\ delLeft' = delLeft - 1
    /\ del_yielded' = del_yielded + 1
    /\ deleted' = Append(deleted, [path |-> path_of(from_record(removed[del_yielded + 1])),
                                   ok |-> FALSE])
    /\ mainpc' = "raised"
    /\ UNCHANGED <<conf, connLeft, storLeft, statLeft, run, dest, catalog, filter,
                   item, other_pending, sentinels, queue, pool, prev,
                   del_offset, del_queries, printed>>

(***************************************************************************)
(* A further run of the program: memory starts afresh, the destination     *)
(* and the remote catalog are what they were.                              *)
(***************************************************************************)
Fresh ==
    /\ offset = 0
    /\ yielded = 0
    /\ queries = <<>>
    /\ consecutive_files_found = 0
    /\ checked = <<>>
    /\ emitted = <<>>
    /\ mainpc = "next"
    /\ item = None
    /\ other_pending = None
    /\ sentinels = 0
    /\ download_queue = <<>>
    /\ unfinished_tasks = 0
    /\ enqueued = <<>>
    /\ wpc = [w \in Workers |-> IF only_print THEN "unstarted" ELSE "get"]
    /\ witem = [w \in Workers |-> None]
    /\ attempt = [w \in Workers |-> 0]
    /\ dequeued = <<>>
    /\ finished = [u \in UnitsOf(remote) |-> 0]
    /\ requests = [u \in UnitsOf(remote) |-> 0]
    /\ errors = [u \in UnitsOf(remote) |-> 0]
    /\ slept = [u \in UnitsOf(remote) |-> 0]
    /\ del_offset = 0
    /\ del_yielded = 0
    /\ del_queries = <<>>
    /\ deleted = <<>>
    /\ printed = <<>>

Sum(f) ==
    LET S[D \in SUBSET DOMAIN f] ==
            IF D = {} THEN 0
            ELSE LET x == CHOOSE y \in D : TRUE IN f[x] + S[D \ {x}]
    IN  S[DOMAIN f]

RunAgain ==
    /\ mainpc = "done"
    /\ run < MaxRuns
    /\ run' = run + 1
    /\ prev' = Append(prev, [disk |-> disk, enqueued |-> enqueued,
                             failed |-> Sum(errors), deleted |-> deleted])
    /\ offset' = 0
    /\ yielded' = 0
    /\ queries' = <<>>
    /\ consecutive_files_found' = 0
    /\ checked' = <<>>
    /\ emitted' = <<>>
    /\ mainpc' = "next"
    /\ item' = None
    /\ other_pending' = None
    /\ sentinels' = 0
    /\ download_queue' = <<>>
    /\ unfinished_tasks' = 0
    /\ enqueued' = <<>>
    /\ wpc' = [w \in Workers |-> IF only_print THEN "unstarted" ELSE "get"]
    /\ witem' = [w \in Workers |-> None]
    /\ attempt' = [w \in Workers |-> 0]
    /\ dequeued' = <<>>
    /\ finished' = [u \in UnitsOf(remote) |-> 0]
    /\ requests' = [u \in UnitsOf(remote) |-> 0]
    /\ errors' = [u \in UnitsOf(remote) |-> 0]
    /\ slept' = [u \in UnitsOf(remote) |-> 0]
    /\ del_offset' = 0
    /\ del_yielded' = 0
    /\ del_queries' = <<>>
    /\ deleted' = <<>>
    /\ printed' = <<>>
    /\ UNCHANGED <<conf, env, dest>>

(***************************************************************************)
(* Initial states: a remote catalog, a destination, the options and what   *)
(* the environment will inject.                                            *)
(***************************************************************************)
\* the options beyond until_found and recent, the 'Recently Deleted' album,
\* and the faults beyond those of the network and of writing
Options(op, ad, rem, brk, nstat, ndel) ==
    /\ only_print = op
    /\ auto_delete = ad
    /\ removed = rem
    /\ broken = brk
    /\ statLeft = nstat
    /\ delLeft = ndel

\* a download run: no dry run, no deletion, a remote that keeps to the schema
Plain == Options(FALSE, FALSE, <<>>, NoBreak, 0, 0)

Start(cat, d, uf, rec, conn, stor) ==
    /\ remote = cat
    /\ until_found = uf
    /\ recent = rec
    /\ connLeft = conn
    /\ storLeft = stor
    /\ run = 1
    /\ start_disk = d
    /\ disk = d
    /\ dirs = {get_download_dir(p[1]) : p \in {q \in DOMAIN d : d[q] # NoFile}}
    /\ prev = <<>>
    /\ Fresh

\* a library of stills on one day, nothing stored: fills the pool and the queue
PoolCatalog == [i \in 1 .. PoolEntries |-> Rec(i, "jpg", 1, 1, 0)]

InitPool ==
    Plain /\ Start(PoolCatalog, [p \in PathsOf(PoolCatalog) |-> NoFile], NoValue, NoValue, 0, 0)

\* a live photo, nothing stored, on a failing network and disk
FaultCatalog == <<Rec(1, "jpg", 1, 1, 1)>>

InitFaults ==
    Plain /\ Start(FaultCatalog, [p \in PathsOf(FaultCatalog) |-> NoFile], NoValue, NoValue,
          MaxConnFailures, MaxStorageErrors)

\* stills and live photos by turns, each with a destination of its own
StreakCatalog ==
    [i \in 1 .. MaxEntries |-> IF i % 2 = 0 THEN Rec(i, "jpg", 1, 1, 2)
                                            ELSE Rec(i, "jpg", 1, 1, 0)]

\* each destination holds nothing or the file of its unit
StoredOrNot(cat) ==
    {d \in [PathsOf(cat) -> {NoFile, 1, 2}] :
        \A u \in UnitsOf(cat) :
            LET m == IF u.vid THEN from_live_photo_record(cat[u.idx])
                     ELSE from_record(cat[u.idx])
            IN  d[download_path(m)] \in {NoFile, m.file_size}}

Thresholds == {NoValue, 0, 1, 2}

\* each entry is stored whole, its companion with it, or not at all
StoredWholeOrNot(cat) ==
    {d \in StoredOrNot(cat) :
        \A i \in {j \in 1 .. Len(cat) : HasVid(cat[j])} :
            d[download_path(from_record(cat[i]))] = NoFile
                <=> d[download_path(from_live_photo_record(cat[i]))] = NoFile}

\* without until_found any unit may be stored; with it, whole entries
InitStreak ==
    \E uf \in Thresholds :
        \E d \in IF uf = NoValue THEN StoredOrNot(StreakCatalog)
                  ELSE StoredWholeOrNot(StreakCatalog) :
            Plain /\ Start(StreakCatalog, d, uf, NoValue, 0, 0)

Caps == {0, 1, 2, 5}

InitRecent ==
    \E rec \in Caps :
        Plain /\ Start(StreakCatalog, [p \in PathsOf(StreakCatalog) |-> NoFile], NoValue, rec, 0, 0)

\* records that share destinations: two stills of one name and day with
\* different sizes, a live photo, and a video named like its paired video
Kinds ==
    {Rec(1, "jpg", 1, 1, 0), Rec(1, "jpg", 1, 2, 0),
     Rec(2, "jpg", 2, 1, 2), Rec(2, "mov", 2, 1, 0)}

ShortCatalogs == {<<a>> : a \in Kinds} \cup {<<a, b>> : a \in Kinds, b \in Kinds}

InitCollide ==
    \E cat \in ShortCatalogs :
        \E d \in [PathsOf(cat) -> {NoFile, 1, 2}] :
            Plain /\ Start(cat, d, NoValue, NoValue, 0, 0)

\* a live photo and a still, stored or not, and a getsize that may raise
StatCatalog == <<Rec(1, "jpg", 1, 1, 2), Rec(2, "jpg", 1, 1, 0)>>

InitStat ==
    \E d \in StoredOrNot(StatCatalog) :
        /\ Options(FALSE, FALSE, <<>>, NoBreak, MaxStatErrors, 0)
        /\ Start(StatCatalog, d, NoValue, NoValue, 0, 0)

\* a live photo and a still whose files are stored with any size, or not
StaleCatalog == <<Rec(1, "jpg", 1, 1, 2), Rec(2, "jpg", 1, 2, 0)>>

InitStale ==
    \E d \in [PathsOf(StaleCatalog) -> {NoFile, 1, 2}] :
        Plain /\ Start(StaleCatalog, d, NoValue, NoValue, 0, 0)

\* a live photo to download, none of it stored; in 'Recently Deleted' a live
\* photo and a still, stored or not; a dry run or not, with or without
\* auto_delete, and an os.remove that may raise
SyncCatalog == <<Rec(1, "jpg", 1, 1, 2)>>

RemovedCatalog == <<Rec(3, "jpg", 2, 1, 2), Rec(4, "jpg", 2, 1, 0)>>

InitSync ==
    \E d \in StoredOrNot(RemovedCatalog), op \in BOOLEAN, ad \in BOOLEAN :
        /\ Options(op, ad, RemovedCatalog, NoBreak, 0, MaxDeleteErrors)
        /\ Start(SyncCatalog, [p \in PathsOf(SyncCatalog) |-> NoFile] @@ d,
                 NoValue, NoValue, 0, 0)

\* the places where a remote can break the schema of a catalog
Breaks(cat) ==
    {[kind |-> "page", at |-> o] : o \in 0 .. Len(cat)}
        \cup {[kind |-> "record", at |-> i] : i \in 1 .. Len(cat)}

\* a remote that breaks the schema somewhere, in a download run or a dry run
InitBroken ==
    \E brk \in Breaks(StreakCatalog), op \in BOOLEAN :
        /\ Options(op, FALSE, <<>>, brk, 0, 0)
        /\ Start(StreakCatalog, [p \in PathsOf(StreakCatalog) |-> NoFile],
                 NoValue, NoValue, 0, 0)

Init == InitPool \/ InitFaults \/ InitStreak \/ InitRecent \/ InitCollide \/ InitStat \/ InitStale \/ InitSync \/ InitBroken

Worker(w) ==
    \/ Get(w)
    \/ Succeed(w)
    \/ \E streaming \in BOOLEAN : ConnectionFails(w, streaming)
    \/ Sleep(w)
    \/ \E writing \in BOOLEAN : StorageFails(w, writing)

Next ==
    \/ FetchPage
    \/ RecentReached
    \/ SkipStep
    \/ Put
    \/ Join
    \/ PutNone
    \/ JoinThreads
    \/ RunAgain
    \/ \E w \in Workers : Worker(w)
    \/ PrintItem
    \/ RemovedFetchPage
    \/ PrintRemoved
    \/ Delete
    \/ DeleteFails
    \/ PageError
    \/ RecordError

Spec == Init /\ [][Next]_vars

\* the threads are scheduled by the operating system: a step that stays
\* possible is taken
Producer ==
    \/ FetchPage \/ RecentReached \/ SkipStep \/ Put \/ Join \/ PutNone \/ JoinThreads
    \/ PrintItem \/ RemovedFetchPage \/ PrintRemoved \/ Delete \/ DeleteFails
    \/ PageError \/ RecordError

FairSpec ==
    /\ (InitFaults \/ InitRecent \/ InitStale \/ InitSync \/ InitBroken)
    /\ [][Next]_vars
    /\ WF_vars(Producer)
    /\ \A w \in Workers : WF_vars(Worker(w))

(***************************************************************************)
(* Properties.                                                             *)
(***************************************************************************)
Range(seq) == {seq[i] : i \in 1 .. Len(seq)}

NoDuplicates(seq) == \A i, j \in 1 .. Len(seq) : seq[i] = seq[j] => i = j

IsPrefix(a, b) == Len(a) =< Len(b) /\ \A i \in 1 .. Len(a) : a[i] = b[i]

AnyCrashed == \E w \in Workers : wpc[w] = "crashed"

InFlight == {w \in Workers : wpc[w] \in {"download", "sleep"}}

RealQueued == {i \in 1 .. Len(download_queue) : download_queue[i] # None}

\* C1: a storage error raised inside download is only that unit's failure:
\* after it the run can still go on, step by step, until "...Done
\* downloading" (the other units are processed, join returns).
C1_StorageErrorIsOnlyThatUnitsFailure ==
    AnyCrashed => (mainpc = "done" \/ ENABLED Next)

\* C2: a unit whose every attempt fails with a connectivity error is
\* attempted exactly MAX_RETRIES times, then reported failed exactly once and
\* marked done by the worker that held it, which is free for the next unit;
\* the failure does not end the worker.
C2_RetryBound ==
    /\ \A w \in InFlight :
          /\ attempt[w] =< MAX_RETRIES
          /\ wpc[w] = "download" => attempt[w] < MAX_RETRIES
          /\ requests[witem[w]] = attempt[w]
          /\ errors[witem[w]] = 0
          /\ finished[witem[w]] = 0
    /\ \A u \in DOMAIN errors :
          /\ errors[u] =< 1
          /\ requests[u] =< MAX_RETRIES
          /\ errors[u] = 1 =>
                /\ requests[u] = MAX_RETRIES
                /\ finished[u] = 1
                /\ \A w \in Workers : witem[w] # u

C2_Witness ==
    \E u \in DOMAIN errors :
        /\ errors[u] = 1
        /\ \E i, j \in 1 .. Len(dequeued) :
              i < j /\ dequeued[i] = u /\ finished[dequeued[j]] = 1
        /\ mainpc = "done"

\* C3: provided every download call returns, each run ends cleanly: a stop
\* value is put only once every enqueued unit is marked done (none queued,
\* none in flight), exactly one per worker is put, every worker takes one
\* and exits, "...Done downloading" comes only after all workers exited,
\* and the run does get there, unless the main thread is ended by an
\* exception of get_media or of delete_files.
SentinelsOnlyAfterDrain ==
    (sentinels > 0 \/ mainpc \in {"sync", "done"}) =>
        /\ RealQueued = {}
        /\ InFlight = {}
        /\ \A u \in Range(enqueued) : finished[u] = 1
        /\ Range(dequeued) = Range(enqueued)

OneSentinelEach ==
    /\ sentinels =< num_worker_threads
    /\ Cardinality({w \in Workers : wpc[w] = "exited"})
           = sentinels - (Len(download_queue) - Cardinality(RealQueued))
    /\ (mainpc \in {"sync", "done"} /\ ~only_print) =>
          /\ sentinels = num_worker_threads
          /\ download_queue = <<>>
          /\ \A w \in Workers : wpc[w] = "exited"

UnitsOfEntries(seq) ==
    IF seq = <<>> THEN 0
    ELSE Cardinality(UNION {{Unit(seq[i], FALSE)} \cup
                            (IF HasVid(remote[seq[i]]) THEN {Unit(seq[i], TRUE)} ELSE {}) :
                            i \in 1 .. Len(seq)})

C4_BoundedPipeline ==
    /\ Cardinality(InFlight) =< num_worker_threads
    /\ Cardinality({witem[w] : w \in InFlight}) =< num_worker_threads
    /\ Len(download_queue) =< maxsize
    /\ ~only_print =>
          /\ UnitsOfEntries(emitted) - Len(enqueued) =< 2
          /\ UnitsOfEntries(emitted) - Len(enqueued)
                 = (IF item # None THEN 1 ELSE 0) + (IF other_pending # None THEN 1 ELSE 0)

\* the pool and the queue are both full and the producer waits in put
C4_Witness ==
    /\ Cardinality(InFlight) = num_worker_threads
    /\ Len(download_queue) = maxsize
    /\ mainpc = "put"

\* C4 as stated: while maxsize units are buffered the producer enumerates
\* no further (it pulls no entry and sends no page query).
C4_NoEnumerationWhileFull ==
    [][Len(download_queue) = maxsize => (yielded' = yielded /\ queries' = queries)]_vars

\* C5: every unit the producer enqueues is taken off the queue by one worker
\* only, and download is called for it once: no unit is held by two workers,
\* none is dequeued twice, and at the end of the run each enqueued unit has
\* been dequeued and marked done exactly once.
C5_OneWorkerPerUnit ==
    /\ NoDuplicates(enqueued)
    /\ NoDuplicates(dequeued)
    /\ \A w, v \in InFlight : witem[w] = witem[v] => w = v
    /\ \A w \in InFlight : witem[w] \in Range(dequeued) /\ finished[witem[w]] = 0
    /\ \A u \in DOMAIN finished :
          /\ finished[u] =< 1
          /\ (finished[u] = 1 \/ requests[u] > 0) => u \in Range(dequeued)
    /\ mainpc = "done" =>
          /\ Len(dequeued) = Len(enqueued)
          /\ \A u \in Range(enqueued) : finished[u] = 1

\* all four workers hold a unit each
C5_Witness ==
    /\ Cardinality({witem[w] : w \in InFlight}) = num_worker_threads
    /\ Len(dequeued) > num_worker_threads

\* C6: units start in catalog order: the producer enqueues the units of the
\* emitted entries in order, still before paired video, and the workers
\* dequeue in that same order; completion is in no particular order.
RECURSIVE Expand(_)
Expand(seq) ==
    IF seq = <<>> THEN <<>>
    ELSE <<Unit(Head(seq), FALSE)>>
             \o (IF HasVid(remote[Head(seq)]) THEN <<Unit(Head(seq), TRUE)>> ELSE <<>>)
             \o Expand(Tail(seq))

C6_StartedInCatalogOrder ==
    /\ IsPrefix(enqueued, Expand(emitted))
    /\ IsPrefix(dequeued, enqueued)
    /\ SelectSeq(download_queue, LAMBDA x : x # None)
           = SubSeq(enqueued, Len(dequeued) + 1, Len(enqueued))

\* a unit dequeued later is done while one dequeued earlier is in flight
C6_Witness ==
    \E i, j \in 1 .. Len(dequeued) :
        /\ i < j
        /\ finished[dequeued[j]] = 1
        /\ finished[dequeued[i]] = 0
        /\ \E w \in InFlight : witem[w] = dequeued[i]

\* what the skip filter saw says the entry is present: the file of the
\* entry and, if it has a companion, the file of the companion are stored
\* with the expected sizes
PresentSeen(c) ==
    /\ c.main = remote[c.idx].res
    /\ HasVid(remote[c.idx]) => c.other = remote[c.idx].vid

RECURSIVE TrailingPresent(_)
TrailingPresent(seq) ==
    IF seq = <<>> \/ ~PresentSeen(seq[Len(seq)]) THEN 0
    ELSE 1 + TrailingPresent(SubSeq(seq, 1, Len(seq) - 1))

RECURSIVE NotPresent(_)
NotPresent(seq) ==
    IF seq = <<>> THEN <<>>
    ELSE (IF PresentSeen(Head(seq)) THEN <<>> ELSE <<Head(seq).idx>>)
             \o NotPresent(Tail(seq))

\* C7: a second run against the same remote catalog and destination, after
\* a run whose downloads all succeeded, enqueues nothing and leaves the
\* destination as that run left it.
C7_Idempotence ==
    (run > 1 /\ prev[Len(prev)].failed = 0) =>
        /\ enqueued = <<>>
        /\ mainpc = "done" => disk = prev[Len(prev)].disk

\* C8: with until_found = k >= 1 and the first k entries present, the filter
\* stops at the k-th: no later entry is pulled from the catalog, checked
\* against the destination, emitted, enqueued or requested.
C8_EarlyStop ==
    (/\ until_found >= 1
     /\ Len(checked) >= until_found
     /\ \A i \in 1 .. until_found : PresentSeen(checked[i])) =>
        /\ Len(checked) = until_found
        /\ yielded = until_found
        /\ mainpc \notin {"next", "put", "print"}
        /\ emitted = <<>>
        /\ enqueued = <<>>
        /\ \A u \in DOMAIN requests : requests[u] = 0

\* two present entries, then an absent one that the run never touched
C8_Witness ==
    /\ until_found = 2
    /\ Len(checked) = 2
    /\ PresentSeen(checked[1]) /\ PresentSeen(checked[2])
    /\ Len(remote) > 2
    /\ ~saved_with_other(disk, remote[3])
    /\ mainpc = "done"

\* C9: the filter examines the entries once each, in catalog order; it emits
\* exactly those that are not present (entry and companion both stored),
\* in order; the counter is the length of the present streak that ends at
\* the last entry examined; without until_found it examines the whole
\* catalog.
C9_SkipFilter ==
    /\ \A i \in 1 .. Len(checked) : checked[i].idx = i
    /\ Len(checked) = yielded
    /\ emitted = NotPresent(checked)
    /\ consecutive_files_found = TrailingPresent(checked)
    /\ (until_found = NoValue /\ recent = NoValue /\ mainpc \in {"join", "stop", "done"})
           => Len(checked) = Len(remote)

\* a live photo whose still is stored and whose video is not is emitted,
\* after a present entry was dropped
C9_Witness ==
    /\ until_found = NoValue
    /\ mainpc = "done"
    /\ \E i, j \in 1 .. Len(checked) :
          /\ i < j
          /\ PresentSeen(checked[i])
          /\ HasVid(remote[j])
          /\ checked[j].main = remote[j].res
          /\ checked[j].other # remote[j].vid
          /\ j \in Range(emitted)

\* C10: an entry that is present when the skip decision is taken (its file
\* and, if it has a companion, the companion's file stored with the expected
\* sizes) is skipped: none of its units is enqueued and no request for their
\* bytes is sent.
C10_PresentEntrySkipped ==
    \A i \in 1 .. Len(checked) :
        PresentSeen(checked[i]) =>
            \A u \in {v \in DOMAIN requests : v.idx = i} :
                u \notin Range(enqueued) /\ requests[u] = 0

\* a present live photo was skipped in a run that downloaded something else
C10_Witness ==
    /\ mainpc = "done"
    /\ enqueued # <<>>
    /\ \E i \in 1 .. Len(checked) : PresentSeen(checked[i]) /\ HasVid(remote[i])

\* C10 as stated: every unit, still or paired video, whose own file is
\* stored with the expected size at the skip decision is neither enqueued
\* nor requested.
C10_PresentUnitSkipped ==
    \A i \in 1 .. Len(checked) :
        /\ checked[i].main = remote[i].res =>
              Unit(i, FALSE) \notin Range(enqueued) /\ requests[Unit(i, FALSE)] = 0
        /\ (HasVid(remote[i]) /\ checked[i].other = remote[i].vid) =>
              Unit(i, TRUE) \notin Range(enqueued) /\ requests[Unit(i, TRUE)] = 0

\* C7 where no two units of the catalog share a destination path
DistinctDestinations ==
    \A u, v \in UnitsOf(remote) :
        download_path(MediaOf(u)) = download_path(MediaOf(v)) => u = v

C7_IdempotenceDistinctDestinations == DistinctDestinations => C7_Idempotence

\* a file is stored and getsize gives the expected size
StoredWithSize(seen, size) == seen # NoFile /\ seen # OSError /\ seen = size

\* C11: already_saved answers true exactly when a file is stored at the
\* path of the media and its size, as read, is the expected one: no file, a
\* size that differs and an OSError from getsize all give false, for the
\* entry and for its companion; an entry is passed on for download exactly
\* when an answer was false; and the check leaves the stored files as they
\* were.
AnswersAsStored ==
    /\ \A k \in 1 .. Len(checked) :
          LET c == checked[k]
          IN  /\ c.saved <=> StoredWithSize(c.main, remote[c.idx].res)
              /\ c.both <=> /\ c.saved
                            /\ HasVid(remote[c.idx]) =>
                                   StoredWithSize(c.other, remote[c.idx].vid)
              /\ c.idx \in Range(emitted) <=> ~c.both
    /\ \A u \in UnitsOf(remote) :
          already_saved(disk, MediaOf(u))
              <=> StoredWithSize(disk[download_path(MediaOf(u))], MediaOf(u).file_size)

C11_AlreadySaved ==
    /\ []AnswersAsStored
    /\ [][checked' # checked => disk' = disk]_vars

\* getsize raised on a file that is stored with the expected size: the entry
\* went on to download; another entry was found saved
C11_Witness ==
    \E k, j \in 1 .. Len(checked) :
        /\ checked[k].main = OSError
        /\ disk[download_path(from_record(remote[k]))] = remote[k].res
        /\ requests[Unit(k, FALSE)] = 0
        /\ k \in Range(emitted)
        /\ checked[j].both

\* the units whose file the skip filter found stored with a size that is
\* not the expected one
StaleUnits ==
    {Unit(checked[k].idx, FALSE) :
        k \in {j \in 1 .. Len(checked) :
                  /\ checked[j].main \notin {NoFile, OSError}
                  /\ checked[j].main # remote[j].res}}
    \cup
    {Unit(checked[k].idx, TRUE) :
        k \in {j \in 1 .. Len(checked) :
                  /\ HasVid(remote[j])
                  /\ checked[j].saved
                  /\ checked[j].other \notin {NoFile, OSError}
                  /\ checked[j].other # remote[j].vid}}

\* the main thread has left the for loop of line 171
AllPut == mainpc \in {"join", "stop", "sync", "done"}

\* the step in which worker w comes back from a download that wrote the file
Downloaded(w) ==
    /\ wpc[w] = "download"
    /\ finished'[witem[w]] = finished[witem[w]] + 1
    /\ errors' = errors

\* C12: a file stored with a size other than the expected one makes
\* already_saved answer false; the entry is emitted and, in a download run,
\* the unit is enqueued and handed to download, a download that succeeds
\* leaves the file with the expected size, and the run does not end before
\* the unit was handed to download.
StaleIsFetched ==
    /\ \A k \in 1 .. Len(checked) :
          LET c == checked[k]
          IN  /\ Unit(c.idx, FALSE) \in StaleUnits => ~c.saved
              /\ (Unit(c.idx, FALSE) \in StaleUnits \/ Unit(c.idx, TRUE) \in StaleUnits)
                     => (~c.both /\ c.idx \in Range(emitted))
    /\ (AllPut /\ ~only_print) => StaleUnits \subseteq Range(enqueued)
    /\ (mainpc \in {"stop", "sync", "done"} /\ ~only_print) =>
          \A u \in StaleUnits :
              /\ requests[u] >= 1
              /\ finished[u] = 1
              /\ (errors[u] = 0 /\ DistinctDestinations) =>
                     disk[download_path(MediaOf(u))] = MediaOf(u).file_size

C12_SizeMismatchRefetched ==
    /\ []StaleIsFetched
    /\ [][\A w \in Workers :
             Downloaded(w) =>
                 disk'[download_path(MediaOf(witem[w]))] = MediaOf(witem[w]).file_size]_vars
    /\ (StaleUnits # {} /\ ~only_print)
           ~> \/ \A u \in StaleUnits : finished[u] = 1
              \/ AnyCrashed
              \/ mainpc = "raised"

\* a still and a paired video, both stored with the wrong size, have been
\* downloaded again and now have the expected sizes
C12_Witness ==
    /\ mainpc = "done"
    /\ Cardinality(StaleUnits) >= 2
    /\ \E u \in StaleUnits : u.vid
    /\ \A u \in StaleUnits :
          /\ requests[u] = 1
          /\ disk[download_path(MediaOf(u))] = MediaOf(u).file_size

\* the places of the units of entry i in a sequence of units
PlacesOf(seq, i) == {k \in 1 .. Len(seq) : seq[k].idx = i}

\* the entries of a sequence of units, one per still
RECURSIVE Parents(_)
Parents(seq) ==
    IF seq = <<>> THEN <<>>
    ELSE (IF Head(seq).vid THEN <<>> ELSE <<Head(seq).idx>>) \o Parents(Tail(seq))

\* C13: the units come out of get_all_downloadable_items one per entry
\* without companion and two per entry with one, the entry first and its
\* companion right behind it, the entries in the order they were emitted,
\* none dropped and none twice; once the loop over the units has ended every
\* unit of every emitted entry has been enqueued, and once join has returned
\* every one has been taken by a worker and requested.
C13_Flattening ==
    /\ NoDuplicates(enqueued)
    /\ IsPrefix(Parents(enqueued), emitted)
    /\ \A k \in 1 .. Len(enqueued) :
          LET u == enqueued[k]
          IN  /\ u.vid => /\ HasVid(remote[u.idx])
                          /\ k > 1
                          /\ enqueued[k - 1] = Unit(u.idx, FALSE)
              /\ (~u.vid /\ HasVid(remote[u.idx]) /\ k < Len(enqueued))
                     => enqueued[k + 1] = Unit(u.idx, TRUE)
    /\ (AllPut /\ ~only_print) =>
          /\ Parents(enqueued) = emitted
          /\ \A i \in Range(emitted) :
                 Cardinality(PlacesOf(enqueued, i)) = IF HasVid(remote[i]) THEN 2 ELSE 1
    /\ (mainpc \in {"stop", "sync", "done"} /\ ~only_print) =>
          \A i \in Range(emitted) :
              \A u \in {v \in UnitsOf(remote) : v.idx = i} :
                  u \in Range(dequeued) /\ requests[u] >= 1

\* a run that emitted a still, a live photo and another still, four units
C13_Witness ==
    /\ mainpc = "done"
    /\ Len(emitted) = 3
    /\ Len(enqueued) = 4
    /\ \E k \in 2 .. 3 : enqueued[k].vid /\ ~enqueued[k + 1].vid
    /\ \A u \in Range(enqueued) : requests[u] = 1

\* the smaller of two numbers
Min(a, b) == IF a < b THEN a ELSE b

\* the queries of get_media so far: the first at offset 0, each further one
\* at the offset the masters of the page before it led to, none after a page
\* without masters (and none after a page that broke the schema)
QueriesInSteps ==
    /\ queries # <<>> => queries[1] = 0
    /\ \A k \in 1 .. Len(queries) - 1 :
          /\ masters_at(remote, queries[k]) > 0
          /\ queries[k + 1] = queries[k] + masters_at(remote, queries[k])
    /\ offset = IF queries = <<>> THEN 0
                ELSE IF page_malformed(broken, queries[Len(queries)])
                     THEN queries[Len(queries)]
                     ELSE queries[Len(queries)] + masters_at(remote, queries[Len(queries)])

\* the loop over the items has ended, and not by an exception or the early
\* stop of the skip filter
Exhausted ==
    /\ mainpc \in {"join", "stop", "sync", "done"}
    /\ until_found = NoValue

\* C14: get_media asks for the pages from offset 0 on, each at the offset
\* after the masters received so far, and ends at the first page without
\* masters; it yields the n masters of the remote once each, in remote
\* order; with recent = m the skip filter sees the first min(m, n) of them
\* and no page is asked for beyond them; and the enumeration comes to an end.
EnumeratesOnce ==
    /\ QueriesInSteps
    /\ yielded =< offset
    /\ offset =< Len(remote)
    /\ Len(checked) = yielded
    /\ \A k \in 1 .. Len(checked) : checked[k].idx = k
    /\ recent # NoValue => /\ yielded =< recent
                           /\ \A k \in 1 .. Len(queries) : queries[k] < recent
    /\ Exhausted =>
          /\ Len(checked) = IF recent = NoValue THEN Len(remote)
                            ELSE Min(recent, Len(remote))
          /\ (recent = NoValue \/ recent > Len(remote)) =>
                 /\ queries # <<>>
                 /\ queries[Len(queries)] = Len(remote)
                 /\ masters_at(remote, queries[Len(queries)]) = 0

C14_CatalogEnumeration ==
    /\ []EnumeratesOnce
    /\ <>[](mainpc \notin {"next", "put", "print"})

\* a cap beyond the remote's masters: all were seen, the last page was empty;
\* and, for a cap below, the run that saw just that many
C14_Witness ==
    /\ mainpc = "done"
    /\ \/ /\ recent > Len(remote)
          /\ Len(checked) = Len(remote)
          /\ Len(queries) >= 3
       \/ /\ recent = 2
          /\ Len(remote) > 2
          /\ Len(checked) = 2
          /\ Len(queries) = 1
          /\ run = MaxRuns

\* the file names of a sequence of units
NamesOf(units) == [k \in 1 .. Len(units) |-> MediaOf(units[k]).file_name]

\* the lines print_items wrote for the items of line 157 are the file names
\* of the units of the emitted entries, in order
PrintsWouldBeDownloads ==
    only_print =>
        /\ mainpc \in {"next", "print"} => IsPrefix(printed, NamesOf(Expand(emitted)))
        /\ mainpc \in {"sync", "done"} =>
              /\ Len(printed) >= Len(Expand(emitted))
              /\ SubSeq(printed, 1, Len(Expand(emitted))) = NamesOf(Expand(emitted))
        /\ enqueued = <<>>
        /\ \A u \in DOMAIN requests : requests[u] = 0

\* C15: a run with only_print logs one line per file that would be
\* downloaded, in enumeration order, and changes nothing at the destination:
\* no file is written, no directory is created and nothing is deleted, with
\* auto_delete as without.
C15_DryRunLeavesDestination ==
    /\ []PrintsWouldBeDownloads
    /\ [][only_print => (disk' = disk /\ dirs' = dirs)]_vars

\* delete_files has gone through the whole of 'Recently Deleted'
DeletionComplete == mainpc = "done" /\ auto_delete /\ ~only_print

\* the file of every entry of 'Recently Deleted' is gone
DeletesEveryEntry ==
    DeletionComplete =>
        \A i \in 1 .. Len(removed) :
            ~exists(disk, download_path(from_record(removed[i])))

\* C16: when delete_files has completed, delete was called for every unit
\* of 'Recently Deleted', companions included: neither the file of an entry
\* nor the file of its companion exists.
C16_DeletesEveryUnit ==
    DeletionComplete =>
        \A i \in 1 .. Len(removed) :
            /\ ~exists(disk, download_path(from_record(removed[i])))
            /\ HasVid(removed[i]) =>
                   ~exists(disk, download_path(from_live_photo_record(removed[i])))

\* nothing of the download pipeline is left: no unit queued or with a worker,
\* every put matched by a task_done, no worker thread running
PipelineDrained ==
    /\ RealQueued = {}
    /\ InFlight = {}
    /\ item = None /\ other_pending = None
    /\ \A u \in Range(enqueued) : finished[u] = 1
    /\ \A w \in Workers : wpc[w] \in {"exited", "unstarted"}

\* C17: the deletion pass starts only when the download pipeline has
\* drained: the main thread is in it, 'Recently Deleted' is queried and a
\* file is removed only while no unit is queued or in flight and no worker
\* thread is running.
C17_DeletionAfterDrain ==
    /\ []((mainpc = "sync" \/ del_queries # <<>> \/ deleted # <<>>) => PipelineDrained)
    /\ [][(\/ Len(del_queries') > Len(del_queries)
           \/ Len(deleted') > Len(deleted)
           \/ \E p \in DOMAIN disk : exists(disk, p) /\ ~exists(disk', p))
              => (PipelineDrained /\ mainpc = "sync")]_vars

\* a run that downloaded two units and then removed a file
C17_Witness ==
    /\ mainpc = "done"
    /\ Len(enqueued) = 2
    /\ \A w \in Workers : wpc[w] = "exited"
    /\ Len(del_queries) >= 2
    /\ \E k \in 1 .. Len(deleted) : deleted[k].ok

\* an os.remove of this run has raised
DeleteFailed == \E k \in 1 .. Len(deleted) : ~deleted[k].ok

\* no file is handed to os.remove twice in one pass
NoDeleteRetried ==
    \A j, k \in 1 .. Len(deleted) : deleted[j].path = deleted[k].path => j = k

\* C18: a delete that fails does not abort the batch: after it the main
\* thread is still in the deletion pass or has completed it, and has then
\* gone through every later entry of 'Recently Deleted'; no delete is tried
\* twice.
C18_DeleteFailureDoesNotAbort ==
    /\ NoDeleteRetried
    /\ DeleteFailed =>
          /\ mainpc \in {"sync", "done"}
          /\ mainpc = "done" => del_yielded = Len(removed)

\* the file delete_files is about to deal with: that of the next master
NextToDelete == download_path(from_record(removed[del_yielded + 1]))

\* one iteration of delete_files
DeleteIteration == mainpc = "sync" /\ ~only_print /\ del_yielded' = del_yielded + 1

\* C19: delete is idempotent: an iteration of delete_files on a file that
\* does not exist calls no os.remove, raises nothing and changes nothing;
\* an iteration changes no file but that of its own item, and no directory;
\* so a second pass over the same 'Recently Deleted' in a further run
\* removes nothing and leaves the destination as the first pass left it.
C19_DeleteIdempotent ==
    /\ [][DeleteIteration =>
             /\ \A p \in DOMAIN disk : p # NextToDelete => disk'[p] = disk[p]
             /\ dirs' = dirs
             /\ disk[NextToDelete] = NoFile =>
                    /\ disk' = disk
                    /\ deleted' = deleted
                    /\ mainpc' = "sync"
             /\ disk'[NextToDelete] # NoFile => mainpc' = "raised"]_vars
    /\ []((run > 1 /\ auto_delete /\ ~only_print /\ prev[Len(prev)].failed = 0
               /\ DistinctDestinations) =>
              /\ deleted = <<>>
              /\ mainpc = "done" => disk = prev[Len(prev)].disk)

\* a second pass has gone through the album whose files the first pass
\* removed, next to a stored file that no pass touched
C19_Witness ==
    /\ run = 2
    /\ mainpc = "done"
    /\ auto_delete /\ ~only_print
    /\ Len(prev[1].deleted) = 2
    /\ del_yielded = Len(removed)
    /\ deleted = <<>>
    /\ \E i \in 1 .. Len(removed) :
          /\ HasVid(removed[i])
          /\ exists(disk, download_path(from_live_photo_record(removed[i])))

\* the main thread was ended by a KeyError of get_media
SchemaRaised == mainpc = "raised" /\ ~DeleteFailed

\* the malformed record was not skipped and nothing beyond it was asked for
StoppedAtTheBreak ==
    SchemaRaised =>
        /\ record_malformed(broken, yielded + 1) \/ page_malformed(broken, offset)
        /\ record_malformed(broken, yielded + 1) =>
               /\ Len(checked) = broken.at - 1
               /\ \A k \in 1 .. Len(queries) : queries[k] < broken.at
        /\ page_malformed(broken, offset) =>
               /\ queries[Len(queries)] = broken.at
               /\ yielded = offset
        /\ mainpc \notin {"next", "put", "print"}

\* C20: a schema error during the enumeration is fatal: it leaves get_media
\* instead of skipping the record, no further page is asked for, and the run
\* terminates: the producer has stopped and, when nothing more can happen,
\* no worker thread is left waiting on the queue.
C20_SchemaErrorEndsRun ==
    /\ StoppedAtTheBreak
    /\ (SchemaRaised /\ ~ENABLED Next) =>
           \A w \in Workers : wpc[w] \in {"exited", "unstarted"}

\* the destination as the current run found it
StartOfRun == IF run = 1 THEN start_disk ELSE prev[run - 1].disk

\* skip_already_saved run alone over the first n entries of the catalog on
\* a destination d that nothing else writes to
SequentialFilter(d, n) ==
    LET F[k \in 0 .. n] ==
            IF k = 0
            THEN [emitted |-> <<>>, count |-> 0, stopped |-> FALSE, examined |-> 0]
            ELSE LET p == F[k - 1]
                 IN  IF p.stopped THEN p
                     ELSE IF saved_with_other(d, remote[k])
                          THEN [emitted |-> p.emitted,
                                count |-> p.count + 1,
                                stopped |-> stop_now(until_found, p.count + 1),
                                examined |-> k]
                          ELSE [emitted |-> Append(p.emitted, k),
                                count |-> 0,
                                stopped |-> FALSE,
                                examined |-> k]
    IN  F[n]

\* no getsize call of the filter raised in this run
NoStatError ==
    \A k \in 1 .. Len(checked) :
        checked[k].main # OSError /\ checked[k].other # OSError

SameAsSequential ==
    LET alone == SequentialFilter(StartOfRun, yielded)
    IN  /\ emitted = alone.emitted
        /\ consecutive_files_found = alone.count
        /\ Len(checked) = alone.examined
        /\ alone.stopped => mainpc \notin {"next", "put", "print"}

\* C21: for a fixed remote catalog and a fixed destination at the start of
\* the run, the entries the skip filter emits, its streak counter and the
\* point where it stops are those of the filter run alone on that
\* destination, whatever the worker threads have done in the meantime.
C21_SkipDecisionsDeterministic == NoStatError => SameAsSequential

\* C21 where no two units of the catalog share a destination path
C21_DeterministicDistinctDestinations ==
    DistinctDestinations => C21_SkipDecisionsDeterministic

\* the filter has emitted, a worker has written, and the filter has gone on
C21_Witness ==
    /\ DistinctDestinations
    /\ NoStatError
    /\ Len(emitted) >= 1
    /\ Len(checked) > emitted[1]
    /\ disk # StartOfRun
    /\ \E k \in 1 .. Len(checked) : checked[k].both

\* the masters among the records of a page
MastersIn(records) ==
    Cardinality({k \in 1 .. Len(records) : records[k].recordType = "CPLMaster"})

\* the masters the pages before query number k of an enumeration returned
RECURSIVE MastersBefore(_, _, _)
MastersBefore(cat, qs, k) ==
    IF k =< 1 THEN 0
    ELSE MastersBefore(cat, qs, k - 1) + MastersIn(records_at(cat, qs[k - 1]))

\* the offsets qs sent by one enumeration of cat, and its cursor now
CursorCounts(cat, qs, cursor, brk) ==
    /\ qs # <<>> => qs[1] = 0
    /\ \A k \in 1 .. Len(qs) : qs[k] = MastersBefore(cat, qs, k)
    /\ \A k \in 1 .. Len(qs) - 1 : qs[k] < qs[k + 1]
    /\ cursor = IF qs # <<>> /\ page_malformed(brk, qs[Len(qs)])
                THEN MastersBefore(cat, qs, Len(qs))
                ELSE MastersBefore(cat, qs, Len(qs) + 1)

\* C22: the offset of each page query is the number of master records the
\* earlier pages of the same enumeration returned: 0 for the first query,
\* strictly more for each further one, the CPLAsset records of a page not
\* counted; and the enumeration of 'Recently Deleted' counts from 0 again.
C22_CursorInvariant ==
    /\ CursorCounts(remote, queries, offset, broken)
    /\ CursorCounts(removed, del_queries, del_offset, NoBreak)

\* both enumerations went beyond their first page, whose records were
\* masters and assets, and the second one began at 0 after the first had
\* advanced
C22_Witness ==
    /\ Len(queries) >= 2
    /\ Len(del_queries) >= 2
    /\ del_queries[1] = 0
    /\ offset > 0
    /\ MastersIn(records_at(remote, 0)) < Len(records_at(remote, 0))

\* the units that have been handed to download in this run
Units == DOMAIN requests

\* a step of the current run in which an attempt on unit u comes to its end
Attempted(u) == run' = run /\ requests'[u] # requests[u]

\* the worker that holds unit u and is about to try it
Trying(w, u) == wpc[w] = "download" /\ witem[w] = u

\* an attempt is made by the worker that took the unit off the queue and has
\* held it since, all its earlier attempts on it having ended in a
\* connectivity failure and none in a success or another error
RetriedInPlace ==
    \A u \in Units :
        Attempted(u) =>
            /\ requests'[u] = requests[u] + 1
            /\ finished[u] = 0
            /\ errors[u] = 0
            /\ \E w \in Workers :
                  /\ Trying(w, u)
                  /\ attempt[w] = requests[u]
                  /\ \A v \in Workers : witem[v] = u => v = w

\* an attempt that ends without a connectivity failure and without another
\* error is the last: the unit is marked done and was not reported failed
StopsAtSuccess ==
    \A u \in Units :
        (Attempted(u) /\ connLeft' = connLeft /\ storLeft' = storLeft) =>
            /\ finished'[u] = 1
            /\ errors'[u] = 0
            /\ \A w \in Workers : witem'[w] # u

\* an attempt that ends in an error other than a connectivity failure leaves
\* the unit with a thread that has ended
OtherErrorEndsThread ==
    \A u \in Units :
        (Attempted(u) /\ storLeft' # storLeft) =>
            \E w \in Workers : witem'[w] = u /\ wpc'[w] = "crashed"

\* a unit that is done or whose thread has ended is left alone
NeverTriedAgain ==
    \A u \in Units :
        (finished[u] = 1 \/ \E w \in Workers : witem[w] = u /\ wpc[w] = "crashed") =>
            (run' = run => /\ requests'[u] = requests[u]
                           /\ errors[u] = 0 => errors'[u] = 0)

\* C23: a unit is attempted again only after a connectivity failure, by the
\* worker that holds it and before that worker takes another unit; a
\* successful attempt is the last and the unit is not reported failed; an
\* error that is not a connectivity failure is followed by no attempt; no
\* unit is attempted more than MAX_RETRIES times.
C23_RetryInPlace ==
    /\ [][RetriedInPlace /\ StopsAtSuccess /\ OtherErrorEndsThread /\ NeverTriedAgain]_vars
    /\ [](\A u \in Units : requests[u] =< MAX_RETRIES)

\* one unit was downloaded at its third attempt, the next one ended in an
\* error of the destination after a connectivity failure
C23_Witness ==
    \E u, v \in Units :
        /\ requests[u] = 3 /\ finished[u] = 1 /\ errors[u] = 0
        /\ requests[v] = 2 /\ finished[v] = 0
        /\ \E w \in Workers : witem[w] = v /\ wpc[w] = "crashed"

\* the directories that existed when the first run began
StartDirs ==
    {get_download_dir(p[1]) : p \in {q \in DOMAIN start_disk : start_disk[q] # NoFile}}

\* the units handed to the for loop of line 171 so far
HandedOver == Range(enqueued) \cup (IF mainpc = "put" THEN {item} ELSE {})

\* C24: the directory of a unit exists from the moment the unit is handed
\* to the queue: whenever a worker holds a unit, a still or a paired video,
\* open finds the directory of its destination file, in every interleaving;
\* and a directory that exists is not created again.
C24_DirectoryBeforeWrite ==
    /\ \A u \in HandedOver : can_open(dirs, MediaOf(u))
    /\ \A w \in InFlight : can_open(dirs, MediaOf(witem[w]))
    /\ StartDirs \subseteq dirs

\* a worker is writing a paired video into a directory that this run made,
\* and a later entry of the same day has passed make_directories
C24_Witness ==
    /\ run = 1
    /\ \E w \in InFlight :
          /\ wpc[w] = "download"
          /\ witem[w].vid
          /\ get_download_dir(MediaOf(witem[w]).created_date) \notin StartDirs
          /\ \E k \in 1 .. Len(emitted) :
                /\ emitted[k] > witem[w].idx
                /\ remote[emitted[k]].created = remote[witem[w].idx].created

\* every connectivity failure of a unit so far has had its delay, but for
\* the one whose delay is running
DelaysCounted ==
    /\ \A w \in Workers :
          /\ wpc[w] = "download" =>
                slept[witem[w]] = WAIT_SECONDS * requests[witem[w]]
          /\ wpc[w] = "sleep" =>
                /\ requests[witem[w]] >= 1
                /\ slept[witem[w]] = WAIT_SECONDS * (requests[witem[w]] - 1)
                /\ errors[witem[w]] = 0
    /\ \A u \in Units :
          errors[u] >= 1 => slept[u] = WAIT_SECONDS * MAX_RETRIES

\* a connectivity failure puts the worker into the delay, and the next thing
\* the worker does is to come out of it, WAIT_SECONDS later; the error line
\* of a unit comes with the end of its last delay
DelayThenGoOn ==
    \A w \in Workers :
        /\ (run' = run /\ connLeft' # connLeft /\ wpc'[w] # wpc[w]) => wpc'[w] = "sleep"
        /\ (wpc[w] = "sleep" /\ <<wpc[w], witem[w], attempt[w]>>' # <<wpc[w], witem[w], attempt[w]>>) =>
              /\ slept'[witem[w]] = slept[witem[w]] + WAIT_SECONDS
              /\ errors'[witem[w]] # errors[witem[w]] =>
                     slept'[witem[w]] = WAIT_SECONDS * MAX_RETRIES

\* C25: every connectivity failure, the last of the budget included, is
\* followed by one delay of WAIT_SECONDS before the worker does anything
\* else: a unit that uses up its budget has slept MAX_RETRIES times
\* WAIT_SECONDS when its failure is reported, and every delay ends.
C25_DelayAfterEveryFailure ==
    /\ []DelaysCounted
    /\ [][DelayThenGoOn]_vars
    /\ <>[](\A w \in Workers : wpc[w] # "sleep")

\* a unit was given up after MAX_RETRIES delays
C25_Witness ==
    \E u \in Units :
        /\ errors[u] = 1
        /\ requests[u] = MAX_RETRIES
        /\ slept[u] = WAIT_SECONDS * MAX_RETRIES
        /\ finished[u] = 1

\* the entries examined so far that were found present, in order
PresentAt == {k \in 1 .. Len(checked) : checked[k].both}

\* the filter has been left (and get_media has not raised)
FilterLeft == mainpc \in {"join", "stop", "sync", "done"}

\* the filter goes up to the first present entry and not beyond it
HaltsAtFirstPresent ==
    /\ \A k \in PresentAt : Len(checked) = k
    /\ PresentAt # {} => /\ yielded = Len(checked)
                         /\ consecutive_files_found = 1
                         /\ mainpc \notin {"next", "put", "print"}
                         /\ queries[Len(queries)] < Len(checked)
    /\ emitted = [k \in 1 .. Len(checked) - Cardinality(PresentAt) |-> k]
    /\ (FilterLeft /\ PresentAt = {} /\ recent = NoValue) => Len(checked) = Len(remote)

\* C26: the threshold is compared only after a present entry was counted, so
\* until_found = 0 does what until_found = 1 does: the enumeration is not
\* halted before a present entry is seen, every absent entry before the
\* first present one is emitted, and the filter halts at the first present
\* entry.
C26_ZeroActsAsOne == until_found \in {0, 1} => HaltsAtFirstPresent

\* with until_found = 0: two absent entries were emitted, the third was
\* present and ended the run's enumeration
C26_Witness ==
    /\ until_found = 0
    /\ mainpc = "done"
    /\ Len(checked) = 3
    /\ PresentAt = {3}
    /\ emitted = <<1, 2>>
    /\ \A u \in Range(enqueued) : finished[u] = 1

====
